---- MODULE Spec2Model ----
(***************************************************************************)
(* Model of the Express gateway in src/index.js: the /stream-run poll      *)
(* loop, the /set-api-key client swap, a plain forwarding route, the       *)
(* global error-handling middleware, the rate limiter and its              *)
(* configuration routes, /execute-tools and /upload-file.                  *)
(*                                                                         *)
(* One /stream-run request is modelled.  Everything the handler keeps is   *)
(* local to its closure; the only state it shares with other requests is   *)
(* the module-level `openai` variable, which only /set-api-key assigns.    *)
(* An action is one run-to-completion turn of the Node event loop: the     *)
(* code between two awaits.                                                *)
(***************************************************************************)
EXTENDS Integers, Sequences, FiniteSets, TLC

(* ------------------------------ bounds --------------------------------- *)

\* polls one stream may issue before the model stops it (the code has no cap)
MaxPolls == 3

\* client instances /set-api-key may create after the one made at startup
MaxSwaps == 2

\* requests to rate-limited routes the model lets one client make
MaxRequests == 3

\* tool calls in one /execute-tools request
MaxCalls == 2

\* /upload-file requests
MaxUploads == 2

(* ------------------------------ values --------------------------------- *)

NonTerminal == {"queued", "in_progress", "requires_action"}

FailureTags == {"failed", "cancelled", "expired"}

TerminalTags == {"completed"} \cup FailureTags

\* every status value the upstream may answer a run poll with
Statuses == NonTerminal \cup TerminalTags

\* request bodies of /set-api-key: "" stands for a missing or empty apiKey
KeyInputs == {"", "sk-new"}

EnvKey == "sk-env"

\* currentRateLimit.windowMs at startup: 15 * 60 * 1000
StartupWindowMs == 900000

\* currentRateLimit.max at startup
StartupMax == 100

\* request bodies of /update-rate-limit
WindowInputs == {1000, 60000}

MaxInputs == {1, 2}

\* currentFileSize at startup: 10 * 1024 * 1024
StartupFileSize == 10485760

\* setTimeout(resolve, 1000)
PollIntervalMs == 1000

NoClient == [inst |-> 0, key |-> ""]

\* errors an upstream request rejects with; status 0 stands for `undefined`
UpstreamErrors ==
    { [status |-> 404, message |-> "Request failed with status code 404"],
      [status |-> 0, message |-> "Network Error"],
      [status |-> 0, message |-> ""] }

TypeError == [status |-> 0, message |-> "Cannot read properties of undefined"]

NoError == [status |-> 0, message |-> "none"]

TextBlock(v) == [type |-> "text", text |-> [value |-> v]]

ImageBlock == [type |-> "image_file"]

Message(blocks) == [content |-> blocks]

\* message lists the upstream may answer GET /threads/:id/messages with
MessageLists ==
    { << >>,
      << Message(<< >>) >>,
      << Message(<< ImageBlock, TextBlock("new") >>) >>,
      << Message(<< TextBlock("new") >>) >>,
      << Message(<< TextBlock("new"), TextBlock("more") >>),
         Message(<< TextBlock("old") >>) >>,
      << Message(<< TextBlock("old") >>), Message(<< ImageBlock >>) >> }

(* ------------------------------- state --------------------------------- *)

VARIABLES
    apiKey,         \* OPENAI_API_KEY of the key manager
    openai,         \* the module-level client instance
    swaps,          \* client instances created by /set-api-key so far
    setKeyStatus,   \* HTTP status of the last /set-api-key answer (0: none yet)
    pc,             \* where the /stream-run handler is
    req,            \* the upstream request the handler awaits
    polled,         \* status tags the run polls returned, in order
    frames,         \* frames passed to res.write, in order
    res,            \* the /stream-run response as it stands on the wire
    connected,      \* the client's socket is still open
    pollsIssued,    \* run polls issued by this stream
    pollsAfterDisconnect, \* run polls issued after the client went away
    msgFetches,     \* message-list fetches issued by this stream
    messages,       \* the message list the fetch returned
    failure,        \* what made the handler reject: none, poll, messages, payload
    err,            \* the error handed to next()
    startClient,    \* the value of `openai` when the stream started
    delays,         \* the delays (ms) of the timers the loop armed, in order
    fpc,            \* where the forwarding handler (/retrieve-run) is
    fres,           \* its response
    ferr,           \* the error it handed to next()
    currentRateLimit, \* the module-level {windowMs, max}
    limiter,        \* the options the mounted rate-limit middleware was built with
    hits,           \* requests of the client the middleware counted in this window
    lastStatus,     \* HTTP status the middleware let the last request end with (0: none)
    lastWindowMs,   \* length of the last window that ran out (0: none)
    reported,       \* rateLimit of the last /api-defaults answer
    tpc,            \* where the /execute-tools handler is
    toolCalls,      \* req.body.tool_calls
    toolsRejected,  \* the promise of handleToolCalls rejected
    toolOutputs,    \* the array handleToolCalls resolved with
    tres,           \* the /execute-tools response
    terr,           \* the error the handler handed to next()
    upc,            \* where each /upload-file request is
    ufile,          \* the file part each request carries
    uploadsDir,     \* the requests whose temporary file is in uploads/
    accepted,       \* the requests whose file multer accepted and stored
    forwarded,      \* the requests whose file was posted to the upstream /files
    ures,           \* the response of each request
    uerr            \* the error each request handed to next()

streamVars ==
    << pc, req, polled, frames, res, connected, pollsIssued,
       pollsAfterDisconnect, msgFetches, messages, failure, err, startClient,
       delays >>

keyVars == << apiKey, openai, swaps, setKeyStatus >>

fwdVars == << fpc, fres, ferr >>

limiterVars ==
    << currentRateLimit, limiter, hits, lastStatus, lastWindowMs, reported >>

toolVars == << tpc, toolCalls, toolsRejected, toolOutputs, tres, terr >>

uploadVars == << upc, ufile, uploadsDir, accepted, forwarded, ures, uerr >>

otherVars == << limiterVars, toolVars, uploadVars >>

vars == << keyVars, streamVars, fwdVars, otherVars >>

(* ------------------------------ helpers -------------------------------- *)

Last(s) == s[Len(s)]

Front(s) == SubSeq(s, 1, Len(s) - 1)

FreshResponse ==
    [headersSent |-> FALSE, statusCode |-> 0, body |-> [kind |-> "none"],
     ended |-> FALSE, destroyed |-> FALSE]

\* createOpenAIInstance: a new axios instance carrying the key manager's key
createOpenAIInstance(n, key) == [inst |-> n, key |-> key]

\* error.status || 500
ErrorStatus(error) == IF error.status = 0 THEN 500 ELSE error.status

\* error.message || "Internal Server Error"
ErrorMessage(error) ==
    IF error.message = "" THEN "Internal Server Error" ELSE error.message

ErrorBody(error) == [kind |-> "json", error |-> [message |-> ErrorMessage(error)]]

\* errorHandler: res.status(..).json(..).  Once the headers are on the wire
\* setting a header throws, Express falls through to its final handler and
\* the socket is destroyed with nothing more written.
errorHandler(error, r) ==
    IF r.headersSent
    THEN [r EXCEPT !.destroyed = TRUE]
    ELSE [r EXCEPT !.headersSent = TRUE, !.statusCode = ErrorStatus(error),
                   !.body = ErrorBody(error), !.ended = TRUE]

\* res.json(response.data)
resJson(r) ==
    [r EXCEPT !.headersSent = TRUE, !.statusCode = 200,
              !.body = [kind |-> "json", data |-> "upstream"], !.ended = TRUE]

\* res.writeHead(200, {"Content-Type": "text/event-stream", ...})
writeHead(r) ==
    [r EXCEPT !.headersSent = TRUE, !.statusCode = 200,
              !.body = [kind |-> "event-stream"]]

\* a status frame that reports tags outside the documented set as in_progress
NormalisedStatusFrame(status) ==
    [type |-> "status",
     content |-> IF status \in {"queued", "in_progress"} \cup TerminalTags
                 THEN status ELSE "in_progress"]

\* line 421-423
StatusFrame(status) == [type |-> "status", content |-> status]

MessageFrame(text) == [type |-> "message", content |-> text]

RunText(status) ==
    CASE status = "failed" -> "Run failed"
      [] status = "cancelled" -> "Run cancelled"
      [] status = "expired" -> "Run expired"
      [] OTHER -> "Run"

ErrorFrame(status) == [type |-> "error", content |-> RunText(status)]

DoneFrame == [type |-> "done", content |-> "[DONE]"]

(* ---------------------- the /stream-run handler ------------------------- *)

\* a loop that keeps the client it saw when the stream started
PinnedClient == IF startClient = NoClient THEN openai ELSE startClient

\* the client a request of the poll loop goes out on: pollRunStatus names the
\* module-level variable `openai` at each call, so it is read at call time
LoopClient == openai

\* run.status === "completed"
IsCompleted(status) == status = "completed"

\* a comparison chain that misses one of the failure tags
IsFailureWithoutExpired(status) == status \in {"failed", "cancelled"}

\* a test that takes every tag it does not know as running for a failure
IsFailureOrUnknown(status) == status \notin {"queued", "in_progress", "completed"}

\* run.status === "failed" || "cancelled" || "expired"
IsFailure(status) == status \in {"failed", "cancelled", "expired"}

\* a failure branch that leaves the loop without writing its event
NoTerminalFrames(status) == << >>

\* what the loop writes after the status frame of a failure tag
TerminalFrames(status) == << ErrorFrame(status) >>

\* a selection that takes the list for oldest-first
OldestMessage(msgs) == msgs[Len(msgs)]

\* messages[0]
LatestMessage(msgs) == msgs[1]

\* latestMessage.content[0].text.value can be read without a TypeError
HasLeadingText(msgs) ==
    /\ Len(msgs) > 0
    /\ Len(LatestMessage(msgs).content) > 0
    /\ "text" \in DOMAIN LatestMessage(msgs).content[1]

\* an evaluation guarded with optional chaining and a default of ""
LenientMessageOutcome(msgs) ==
    [ok |-> TRUE,
     text |-> IF Len(msgs) > 0 /\ Len(msgs[1].content) > 0
                 /\ "text" \in DOMAIN msgs[1].content[1]
              THEN msgs[1].content[1].text.value ELSE ""]

\* the evaluation of latestMessage.content[0].text.value: its value, or a throw
MessageOutcome(msgs) ==
    IF HasLeadingText(msgs)
    THEN [ok |-> TRUE, text |-> LatestMessage(msgs).content[1].text.value]
    ELSE [ok |-> FALSE, text |-> ""]

\* a loop that swallows the rejection and polls again after the interval
RetryAfterPollFailure == "sleeping"

\* where a rejected run poll leaves the handler: the rejection leaves the
\* loop and asyncHandler hands it to next()
AfterPollFailure == "aborted"

\* a loop that polls again at once after the first poll
ImmediateFirstRetry(n) == IF n = 1 THEN 0 ELSE PollIntervalMs

\* line 452: the delay of the timer armed after the n-th poll
SleepDelay(n) == PollIntervalMs

\* the request the handler awaits after issuing `kind` on the loop's client
Issue(kind) == [kind |-> kind, client |-> LoopClient]

NoRequest == [kind |-> "none", client |-> NoClient]

\* lines 406-418: writeHead, then the first openai.get of pollRunStatus
StartStream ==
    /\ pc = "idle"
    /\ res' = writeHead(res)
    /\ startClient' = openai
    /\ req' = Issue("run")
    /\ pollsIssued' = pollsIssued + 1
    /\ pc' = "polling"
    /\ UNCHANGED << polled, frames, connected, pollsAfterDisconnect,
                    msgFetches, messages, failure, err >>
    /\ UNCHANGED delays
    /\ UNCHANGED << keyVars, fwdVars >>
    /\ UNCHANGED otherVars

\* lines 419-452: the poll resolved with run.status = status
PollReturn(status) ==
    /\ pc = "polling"
    /\ polled' = Append(polled, status)
    /\ IF IsCompleted(status)
       THEN /\ frames' = Append(frames, StatusFrame(status))
            /\ req' = Issue("messages")
            /\ msgFetches' = msgFetches + 1
            /\ pc' = "fetching"
            /\ UNCHANGED delays
       ELSE IF IsFailure(status)
       THEN /\ frames' = Append(frames, StatusFrame(status)) \o TerminalFrames(status)
            /\ req' = NoRequest
            /\ msgFetches' = msgFetches
            /\ pc' = "exited"
            /\ UNCHANGED delays
       ELSE /\ frames' = Append(frames, StatusFrame(status))
            /\ req' = NoRequest
            /\ msgFetches' = msgFetches
            /\ delays' = Append(delays, SleepDelay(Len(polled) + 1))
            /\ pc' = "sleeping"
    /\ UNCHANGED << res, connected, pollsIssued, pollsAfterDisconnect,
                    messages, failure, err, startClient >>
    /\ UNCHANGED << keyVars, fwdVars >>
    /\ UNCHANGED otherVars

\* line 416 rejects: no catch in the loop, asyncHandler's .catch(next)
PollFail(error) ==
    /\ pc = "polling"
    /\ req' = NoRequest
    /\ failure' = "poll"
    /\ err' = error
    /\ res' = errorHandler(error, res)
    /\ pc' = AfterPollFailure
    /\ UNCHANGED << polled, frames, connected, pollsIssued,
                    pollsAfterDisconnect, msgFetches, messages, startClient >>
    /\ UNCHANGED delays
    /\ UNCHANGED << keyVars, fwdVars >>
    /\ UNCHANGED otherVars

\* line 452 then 416: the 1 s timer fires and the next poll goes out
TimerFire ==
    /\ pc = "sleeping"
    /\ pollsIssued < MaxPolls
    /\ req' = Issue("run")
    /\ pollsIssued' = pollsIssued + 1
    /\ pollsAfterDisconnect' =
          IF connected THEN pollsAfterDisconnect ELSE pollsAfterDisconnect + 1
    /\ pc' = "polling"
    /\ UNCHANGED << polled, frames, res, connected, msgFetches, messages,
                    failure, err, startClient >>
    /\ UNCHANGED delays
    /\ UNCHANGED << keyVars, fwdVars >>
    /\ UNCHANGED otherVars

\* lines 429-437: the message list arrived
MessagesReturn(msgs) ==
    /\ pc = "fetching"
    /\ messages' = msgs
    /\ req' = NoRequest
    /\ IF MessageOutcome(msgs).ok
       THEN /\ frames' = Append(frames, MessageFrame(MessageOutcome(msgs).text))
            /\ pc' = "exited"
            /\ UNCHANGED << failure, err, res >>
       ELSE /\ failure' = "payload"
            /\ err' = TypeError
            /\ res' = errorHandler(TypeError, res)
            /\ pc' = "aborted"
            /\ UNCHANGED frames
    /\ UNCHANGED << polled, connected, pollsIssued, pollsAfterDisconnect,
                    msgFetches, startClient >>
    /\ UNCHANGED delays
    /\ UNCHANGED << keyVars, fwdVars >>
    /\ UNCHANGED otherVars

\* line 426 rejects
MessagesFail(error) ==
    /\ pc = "fetching"
    /\ req' = NoRequest
    /\ failure' = "messages"
    /\ err' = error
    /\ res' = errorHandler(error, res)
    /\ pc' = "aborted"
    /\ UNCHANGED << polled, frames, connected, pollsIssued,
                    pollsAfterDisconnect, msgFetches, messages, startClient >>
    /\ UNCHANGED delays
    /\ UNCHANGED << keyVars, fwdVars >>
    /\ UNCHANGED otherVars

\* lines 456-458: pollRunStatus returned; the sentinel, then res.end()
Finish ==
    /\ pc = "exited"
    /\ frames' = Append(frames, DoneFrame)
    /\ res' = [res EXCEPT !.ended = TRUE]
    /\ pc' = "closed"
    /\ UNCHANGED << req, polled, connected, pollsIssued, pollsAfterDisconnect,
                    msgFetches, messages, failure, err, startClient >>
    /\ UNCHANGED delays
    /\ UNCHANGED << keyVars, fwdVars >>
    /\ UNCHANGED otherVars

\* the client goes away mid-stream.  The handler registers no close listener
\* and res.write on a destroyed socket does not throw, so nothing in the
\* handler observes it.
Disconnect ==
    /\ pc \in {"polling", "sleeping", "fetching"}
    /\ connected
    /\ connected' = FALSE
    /\ UNCHANGED << pc, req, polled, frames, res, pollsIssued,
                    pollsAfterDisconnect, msgFetches, messages, failure, err,
                    startClient >>
    /\ UNCHANGED delays
    /\ UNCHANGED << keyVars, fwdVars >>
    /\ UNCHANGED otherVars

(* --------------------------- /set-api-key ------------------------------ *)

\* lines 596-605
SetApiKey(key) ==
    /\ IF key = ""
       THEN /\ setKeyStatus' = 400
            /\ UNCHANGED << apiKey, openai, swaps >>
       ELSE /\ swaps < MaxSwaps
            /\ apiKey' = key
            /\ swaps' = swaps + 1
            /\ openai' = createOpenAIInstance(swaps + 2, key)
            /\ setKeyStatus' = 200
    /\ UNCHANGED << streamVars, fwdVars >>
    /\ UNCHANGED otherVars

(* ------------------- a forwarding route: /retrieve-run ------------------ *)

\* lines 323-328: the handler starts and awaits openai.get
FwdStart ==
    /\ fpc = "idle"
    /\ fpc' = "awaiting"
    /\ UNCHANGED << fres, ferr >>
    /\ UNCHANGED << keyVars, streamVars >>
    /\ UNCHANGED otherVars

\* line 329: res.json(response.data)
FwdReturn ==
    /\ fpc = "awaiting"
    /\ fres' = resJson(fres)
    /\ fpc' = "responded"
    /\ UNCHANGED ferr
    /\ UNCHANGED << keyVars, streamVars >>
    /\ UNCHANGED otherVars

\* line 326 rejects: asyncHandler's .catch(next), then errorHandler
FwdFail(error) ==
    /\ fpc = "awaiting"
    /\ ferr' = error
    /\ fres' = errorHandler(error, fres)
    /\ fpc' = "failed"
    /\ UNCHANGED << keyVars, streamVars >>
    /\ UNCHANGED otherVars

(* --------------------------- the rate limiter -------------------------- *)

NoRateLimit == [windowMs |-> 0, max |-> 0]

\* lines 48-52: rateLimit({windowMs, max}) reads currentRateLimit when it is
\* called and keeps the two numbers as the options of the middleware it returns
getLimiter == [windowMs |-> currentRateLimit.windowMs, max |-> currentRateLimit.max]

\* express-rate-limit: the request that takes the count above max is answered
\* 429, any other goes on to its route
LimiterStatus(options, count) == IF count > options.max THEN 429 ELSE 200

\* lines 82-86
UpdateRateLimit(windowMs, max) ==
    /\ currentRateLimit' = [windowMs |-> windowMs, max |-> max]
    /\ UNCHANGED << limiter, hits, lastStatus, lastWindowMs, reported >>
    /\ UNCHANGED << keyVars, streamVars, fwdVars, toolVars, uploadVars >>

\* lines 98-152: rateLimit: currentRateLimit
GetApiDefaults ==
    /\ reported' = currentRateLimit
    /\ UNCHANGED << currentRateLimit, limiter, hits, lastStatus, lastWindowMs >>
    /\ UNCHANGED << keyVars, streamVars, fwdVars, toolVars, uploadVars >>

\* a request to a route registered after line 155 passes the middleware that
\* app.use(getLimiter()) mounted once, when the module was loaded
LimitedRequest ==
    /\ hits < MaxRequests
    /\ hits' = hits + 1
    /\ lastStatus' = LimiterStatus(limiter, hits + 1)
    /\ UNCHANGED << currentRateLimit, limiter, lastWindowMs, reported >>
    /\ UNCHANGED << keyVars, streamVars, fwdVars, toolVars, uploadVars >>

\* the window of the mounted middleware runs out and its count starts again
WindowElapses ==
    /\ hits > 0
    /\ hits' = 0
    /\ lastWindowMs' = limiter.windowMs
    /\ UNCHANGED << currentRateLimit, limiter, lastStatus, reported >>
    /\ UNCHANGED << keyVars, streamVars, fwdVars, toolVars, uploadVars >>

(* ------------------------ /execute-tools ------------------------------- *)

\* names a tool call may carry: three functions Node has on `global`, and one
\* that is no property of it
ToolNames == {"structuredClone", "setTimeout", "BigInt", "get_weather"}

\* call.arguments: the text "1", or absent
ToolArguments == {"1", "undefined"}

ToolIds == {"call_a", "call_b"}

\* the elements of req.body.tool_calls: with a `function` object, or without
ToolCallInputs ==
    [id : ToolIds, hasFunction : {TRUE}, name : ToolNames, args : ToolArguments]
    \cup [id : ToolIds, hasFunction : {FALSE}, name : {""}, args : {"undefined"}]

\* the lists of at most n tool calls
RECURSIVE ToolCallLists(_)
ToolCallLists(n) ==
    IF n = 0 THEN { << >> }
    ELSE ToolCallLists(n - 1) \cup
         { Append(l, c) : l \in { x \in ToolCallLists(n - 1) : Len(x) = n - 1 },
                          c \in ToolCallInputs }

\* typeof global[func.name] === "function"
IsGlobalFunction(name) == name \in {"structuredClone", "setTimeout", "BigInt"}

\* JSON.parse(args) returns
ArgumentsParse(args) == args = "1"

\* await global[func.name](1): structuredClone returns 1, setTimeout throws
\* on a callback that is no function, BigInt returns 1n
GlobalCall(name) ==
    CASE name = "structuredClone" -> "number"
      [] name = "BigInt" -> "bigint"
      [] OTHER -> "throws"

UnknownFunctionOutput(name) == [error |-> "Unknown function", name |-> name]

ExecutionErrorOutput(name) == [error |-> "Error executing", name |-> name]

ValueOutput(name) == [error |-> "", name |-> name]

\* lines 559-575: the callback of tool_calls.map for one call; `rejected`
\* when an exception leaves it.  func.name in the catch block throws again
\* when the call has no `function`; JSON.stringify, outside the try, throws
\* on a BigInt.
SettleCall(call) ==
    IF ~call.hasFunction
    THEN [rejected |-> TRUE, tool_call_id |-> call.id, output |-> ValueOutput("")]
    ELSE IF ~IsGlobalFunction(call.name)
    THEN [rejected |-> FALSE, tool_call_id |-> call.id,
          output |-> UnknownFunctionOutput(call.name)]
    ELSE IF ~ArgumentsParse(call.args) \/ GlobalCall(call.name) = "throws"
    THEN [rejected |-> FALSE, tool_call_id |-> call.id,
          output |-> ExecutionErrorOutput(call.name)]
    ELSE IF GlobalCall(call.name) = "bigint"
    THEN [rejected |-> TRUE, tool_call_id |-> call.id, output |-> ValueOutput(call.name)]
    ELSE [rejected |-> FALSE, tool_call_id |-> call.id, output |-> ValueOutput(call.name)]

\* lines 557-577: Promise.all over the callbacks
handleToolCalls(calls) ==
    IF \E i \in 1..Len(calls) : SettleCall(calls[i]).rejected
    THEN [rejected |-> TRUE, outputs |-> << >>]
    ELSE [rejected |-> FALSE,
          outputs |-> [i \in 1..Len(calls) |->
                         [tool_call_id |-> SettleCall(calls[i]).tool_call_id,
                          output |-> SettleCall(calls[i]).output]]]

\* lines 581-590: handleToolCalls, then the submit_tool_outputs request
ExecuteTools(calls) ==
    /\ tpc = "idle"
    /\ toolCalls' = calls
    /\ toolsRejected' = handleToolCalls(calls).rejected
    /\ toolOutputs' = handleToolCalls(calls).outputs
    /\ IF handleToolCalls(calls).rejected
       THEN /\ terr' = TypeError
            /\ tres' = errorHandler(TypeError, tres)
            /\ tpc' = "failed"
       ELSE /\ tpc' = "submitting"
            /\ UNCHANGED << tres, terr >>
    /\ UNCHANGED << keyVars, streamVars, fwdVars, limiterVars, uploadVars >>

\* line 592: res.json(response.data)
SubmitReturn ==
    /\ tpc = "submitting"
    /\ tres' = resJson(tres)
    /\ tpc' = "responded"
    /\ UNCHANGED << toolCalls, toolsRejected, toolOutputs, terr >>
    /\ UNCHANGED << keyVars, streamVars, fwdVars, limiterVars, uploadVars >>

\* line 587 rejects
SubmitFail(error) ==
    /\ tpc = "submitting"
    /\ terr' = error
    /\ tres' = errorHandler(error, tres)
    /\ tpc' = "failed"
    /\ UNCHANGED << toolCalls, toolsRejected, toolOutputs >>
    /\ UNCHANGED << keyVars, streamVars, fwdVars, limiterVars, uploadVars >>

(* --------------------------- /upload-file ------------------------------ *)

Uploads == 1..MaxUploads

\* lines 60-68
AllowedTypes ==
    {"image/jpeg", "image/png", "application/pdf", "text/plain",
     "application/msword",
     "application/vnd.openxmlformats-officedocument.wordprocessingml.document",
     "application/json"}

NoFile == [mimetype |-> "", size |-> 0]

\* the `file` part of a request: absent, or a file of some type and size
FileInputs ==
    {NoFile} \cup [mimetype : {"text/plain", "application/pdf", "application/zip"},
                   size : {1024, 2 * StartupFileSize}]

\* the identifiers index.js declares or imports at module level
IndexScope ==
    {"app", "openai", "currentRateLimit", "currentFileSize", "getLimiter",
     "getUpload", "storage", "errorHandler", "asyncHandler", "handleToolCalls",
     "setApiKey", "createOpenAIInstance", "PORT", "__filename", "__dirname"}

\* evaluating the identifier does not throw a ReferenceError
Resolves(identifier) == identifier \in IndexScope

\* lines 55-79 and 158-169: multer's single("file") with the file filter, the
\* size limit getUpload() read at line 465 and the disk storage.  A file
\* above the limit is removed again.
MulterOutcome(file) ==
    IF file = NoFile THEN "none"
    ELSE IF file.mimetype \notin AllowedTypes THEN "badType"
    ELSE IF file.size > StartupFileSize THEN "tooLarge"
    ELSE "stored"

MulterError(outcome) ==
    IF outcome = "badType"
    THEN [status |-> 0, message |-> "Invalid file type"]
    ELSE [status |-> 0, message |-> "File too large"]

NoUploadError == [status |-> 0, message |-> "No file uploaded"]

UploadFailedError == [status |-> 0, message |-> "Failed to upload file to OpenAI"]

\* line 465: the multer middleware of request u
UploadReceive(u, file) ==
    /\ upc[u] = "idle"
    /\ ufile' = [ufile EXCEPT ![u] = file]
    /\ IF MulterOutcome(file) \in {"badType", "tooLarge"}
       THEN /\ uerr' = [uerr EXCEPT ![u] = MulterError(MulterOutcome(file))]
            /\ ures' = [ures EXCEPT ![u] =
                           errorHandler(MulterError(MulterOutcome(file)), ures[u])]
            /\ upc' = [upc EXCEPT ![u] = "answered"]
            /\ UNCHANGED << uploadsDir, accepted >>
       ELSE /\ upc' = [upc EXCEPT ![u] = "handling"]
            /\ uploadsDir' =
                  IF MulterOutcome(file) = "stored" THEN uploadsDir \cup {u}
                  ELSE uploadsDir
            /\ accepted' =
                  IF MulterOutcome(file) = "stored" THEN accepted \cup {u}
                  ELSE accepted
            /\ UNCHANGED << ures, uerr >>
    /\ UNCHANGED forwarded
    /\ UNCHANGED << keyVars, streamVars, fwdVars, limiterVars, toolVars >>

\* lines 466-499: the route handler.  Without req.file it throws at line 468.
\* Otherwise the arguments of openai.post are evaluated inside the try, and
\* `Bearer ${OPENAI_API_KEY}` names an identifier index.js neither declares
\* nor imports: the ReferenceError is caught at line 492 and replaced by the
\* error of line 497 before any request goes out.  The catch block does not
\* unlink the file.
UploadHandle(u) ==
    /\ upc[u] = "handling"
    /\ IF u \notin accepted
       THEN /\ uerr' = [uerr EXCEPT ![u] = NoUploadError]
            /\ ures' = [ures EXCEPT ![u] = errorHandler(NoUploadError, ures[u])]
            /\ upc' = [upc EXCEPT ![u] = "answered"]
            /\ UNCHANGED forwarded
       ELSE IF ~Resolves("OPENAI_API_KEY")
       THEN /\ uerr' = [uerr EXCEPT ![u] = UploadFailedError]
            /\ ures' = [ures EXCEPT ![u] = errorHandler(UploadFailedError, ures[u])]
            /\ upc' = [upc EXCEPT ![u] = "answered"]
            /\ UNCHANGED forwarded
       ELSE /\ forwarded' = forwarded \cup {u}
            /\ upc' = [upc EXCEPT ![u] = "posting"]
            /\ UNCHANGED << ures, uerr >>
    /\ UNCHANGED << ufile, uploadsDir, accepted >>
    /\ UNCHANGED << keyVars, streamVars, fwdVars, limiterVars, toolVars >>

(* --------------------------- specification ----------------------------- *)

Init ==
    /\ apiKey = EnvKey
    /\ openai = createOpenAIInstance(1, EnvKey)
    /\ swaps = 0
    /\ setKeyStatus = 0
    /\ pc = "idle"
    /\ req = NoRequest
    /\ polled = << >>
    /\ frames = << >>
    /\ res = FreshResponse
    /\ connected = TRUE
    /\ pollsIssued = 0
    /\ pollsAfterDisconnect = 0
    /\ msgFetches = 0
    /\ messages = << >>
    /\ failure = "none"
    /\ err = NoError
    /\ startClient = NoClient
    /\ delays = << >>
    /\ fpc = "idle"
    /\ fres = FreshResponse
    /\ ferr = NoError
    /\ currentRateLimit = [windowMs |-> StartupWindowMs, max |-> StartupMax]
    /\ limiter = getLimiter
    /\ hits = 0
    /\ lastStatus = 0
    /\ lastWindowMs = 0
    /\ reported = NoRateLimit
    /\ tpc = "idle"
    /\ toolCalls = << >>
    /\ toolsRejected = FALSE
    /\ toolOutputs = << >>
    /\ tres = FreshResponse
    /\ terr = NoError
    /\ upc = [u \in Uploads |-> "idle"]
    /\ ufile = [u \in Uploads |-> NoFile]
    /\ uploadsDir = {}
    /\ accepted = {}
    /\ forwarded = {}
    /\ ures = [u \in Uploads |-> FreshResponse]
    /\ uerr = [u \in Uploads |-> NoError]

StreamStep ==
    \/ StartStream
    \/ \E status \in Statuses : PollReturn(status)
    \/ \E error \in UpstreamErrors : PollFail(error)
    \/ TimerFire
    \/ \E msgs \in MessageLists : MessagesReturn(msgs)
    \/ \E error \in UpstreamErrors : MessagesFail(error)
    \/ Finish

\* the /stream-run request, /set-api-key requests and the client's socket
Next ==
    \/ StartStream
    \/ \E status \in Statuses : PollReturn(status)
    \/ \E error \in UpstreamErrors : PollFail(error)
    \/ TimerFire
    \/ \E msgs \in MessageLists : MessagesReturn(msgs)
    \/ \E error \in UpstreamErrors : MessagesFail(error)
    \/ Finish
    \/ Disconnect
    \/ \E key \in KeyInputs : SetApiKey(key)

\* the same, with a request to the forwarding route alongside
GatewayNext ==
    \/ StartStream
    \/ \E status \in Statuses : PollReturn(status)
    \/ \E error \in UpstreamErrors : PollFail(error)
    \/ TimerFire
    \/ \E msgs \in MessageLists : MessagesReturn(msgs)
    \/ \E error \in UpstreamErrors : MessagesFail(error)
    \/ Finish
    \/ Disconnect
    \/ \E key \in KeyInputs : SetApiKey(key)
    \/ FwdStart
    \/ FwdReturn
    \/ \E error \in UpstreamErrors : FwdFail(error)

Spec == Init /\ [][Next]_vars

\* the configuration routes and the requests the rate limiter sees
LimiterNext ==
    \/ \E windowMs \in WindowInputs, max \in MaxInputs : UpdateRateLimit(windowMs, max)
    \/ GetApiDefaults
    \/ LimitedRequest
    \/ WindowElapses

LimiterSpec == Init /\ [][LimiterNext]_vars

\* one /execute-tools request
ToolsNext ==
    \/ \E calls \in ToolCallLists(MaxCalls) : ExecuteTools(calls)
    \/ SubmitReturn
    \/ \E error \in UpstreamErrors : SubmitFail(error)

ToolsSpec == Init /\ [][ToolsNext]_vars

\* the /upload-file requests.  No request reaches the await of line 481, so
\* the handler has no step after UploadHandle.
UploadNext ==
    \/ \E u \in Uploads, file \in FileInputs : UploadReceive(u, file)
    \/ \E u \in Uploads : UploadHandle(u)

UploadSpec == Init /\ [][UploadNext]_vars

GatewaySpec == Init /\ [][GatewayNext]_vars

\* Node runs every ready callback: a request the client accepted starts, an
\* awaited upstream request resolves or rejects, an armed timer fires, and the
\* continuation after pollRunStatus runs.
FairSpec == Spec /\ WF_vars(StreamStep)

(* ------------------------- notions the claims use ---------------------- *)

FramesOfType(types) == { i \in 1..Len(frames) : frames[i].type \in types }

TerminalEvents == FramesOfType({"message", "error"})

Sentinels == FramesOfType({"done"})

IsStatusFrame(f) == f.type = "status"

\* the contents of the status frames written, in order
StatusContents ==
    LET st == SelectSeq(frames, IsStatusFrame)
    IN  [i \in 1..Len(st) |-> st[i].content]

\* the tag of the latest poll that returned
LastPolled == IF polled = << >> THEN "none" ELSE Last(polled)

TerminalPolled == LastPolled \in TerminalTags

\* the stream ended the clean way: one terminal event, then the sentinel, then
\* res.end()
ClosedProperly ==
    /\ pc = "closed"
    /\ res.ended
    /\ Sentinels = { Len(frames) }
    /\ TerminalEvents = { Len(frames) - 1 }

\* the handler has no step left
Stopped == pc \in {"closed", "aborted"}

(* -------------------------------- C1 ----------------------------------- *)

\* C1: whenever the sentinel has been written, exactly one terminal event
\* (message or error) was written before it, there is at most one sentinel,
\* and the sentinel is the last frame written to the stream.
C1_SentinelAfterOneTerminalEvent ==
    /\ Cardinality(Sentinels) <= 1
    /\ \A i \in Sentinels :
          /\ i = Len(frames)
          /\ Cardinality({ j \in TerminalEvents : j < i }) = 1

C1_Witness ==
    /\ pc = "closed"
    /\ Sentinels # {}
    /\ Len(polled) >= 2
    /\ ~connected

(* -------------------------------- C2 ----------------------------------- *)

\* C2 as stated: a stream that polled a terminal tag and has no step left has
\* written exactly one terminal event followed by exactly one sentinel and
\* ended the response.
C2_Original == (TerminalPolled /\ Stopped) => ClosedProperly

\* the message list came back and its newest message starts with a text block
MessageDelivered ==
    /\ LastPolled = "completed"
    /\ msgFetches = 1
    /\ req.kind = "none"
    /\ failure = "none"

AbortedAfterCompleted ==
    /\ pc = "aborted"
    /\ LastPolled = "completed"
    /\ failure \in {"messages", "payload"}
    /\ TerminalEvents = {}
    /\ Sentinels = {}

\* C2, amended: once a poll returned failed, cancelled or expired, or returned
\* completed and the message-list fetch came back with a newest message that
\* starts with a text block, the handler eventually has written exactly one
\* terminal event followed by exactly one sentinel and ended the response, and
\* it writes nothing after that; the only other end of a stream that polled a
\* terminal tag is the abort after completed, with no terminal event and no
\* sentinel.
C2_Amended ==
    /\ (LastPolled \in FailureTags) ~> ClosedProperly
    /\ MessageDelivered ~> ClosedProperly
    /\ TerminalPolled ~> (ClosedProperly \/ AbortedAfterCompleted)
    /\ [][pc = "closed" => frames' = frames]_vars

C2_Witness ==
    /\ ClosedProperly
    /\ LastPolled = "completed"
    /\ Len(polled) >= 2

(* -------------------------------- C3 ----------------------------------- *)

\* C3: the contents of the status frames written are, in order, the status
\* tags polled so far, or those tags without the one of a poll that has just
\* returned.
C3_StatusFidelity ==
    \/ StatusContents = polled
    \/ polled # << >> /\ StatusContents = Front(polled)

C3_Witness ==
    /\ Len(polled) >= 3
    /\ polled[1] = "requires_action"
    /\ polled[2] = "queued"
    /\ LastPolled = "cancelled"
    /\ StatusContents = polled

(* -------------------------------- C4 ----------------------------------- *)

\* C4: after the client disconnects at most one further upstream poll is
\* issued.
C4_Claim == ~connected => pollsAfterDisconnect <= 1

(* -------------------------------- C5 ----------------------------------- *)

C6_PollFailureAbortsStream ==
    failure = "poll" =>
        /\ pc = "aborted"
        /\ req.kind = "none"
        /\ pollsIssued = Len(polled) + 1
        /\ FramesOfType({"status"}) = 1..Len(frames)
        /\ res.destroyed
        /\ ~res.ended

C6_Witness ==
    /\ failure = "poll"
    /\ Len(polled) >= 2
    /\ connected

(* -------------------------------- C7 ----------------------------------- *)

\* C7: the message list is fetched at most once, only after a completed poll
\* and always after one; a message event is written at most once, and its
\* content is the text value of the first content block of the first element
\* of the list that fetch returned.
C7_MessageSelection ==
    /\ msgFetches <= 1
    /\ msgFetches = 1 <=> LastPolled = "completed"
    /\ Cardinality(FramesOfType({"message"})) <= 1
    /\ \A i \in FramesOfType({"message"}) :
          /\ msgFetches = 1
          /\ Len(messages) > 0
          /\ Len(messages[1].content) > 0
          /\ "text" \in DOMAIN messages[1].content[1]
          /\ frames[i].content = messages[1].content[1].text.value

C7_Witness ==
    /\ pc = "closed"
    /\ Len(messages) = 2
    /\ Len(messages[1].content) = 2
    /\ FramesOfType({"message"}) # {}

(* -------------------------------- C8 ----------------------------------- *)

\* the response the README promises for `error`
IsErrorResponse(r, error) ==
    /\ r.statusCode = ErrorStatus(error)
    /\ r.body = ErrorBody(error)

\* C8: every error a wrapped route handler raises reaches the client as a
\* response with status error.status (or 500) and body {error: {message}}.
C8_Claim ==
    /\ failure # "none" => IsErrorResponse(res, err)
    /\ fpc = "failed" => IsErrorResponse(fres, ferr)

(* -------------------------------- C9 ----------------------------------- *)

\* C9: the loop is left only on a poll that returned completed, failed,
\* cancelled or expired; while every poll so far succeeded with another value
\* the handler is polling or sleeping and has written status frames only; and
\* a sleeping loop always polls again (there is no attempt cap but the
\* model's).
C9_ExitOnlyOnTerminalTag ==
    /\ pc \in {"fetching", "exited", "closed"} => TerminalPolled
    /\ (pc # "idle" /\ failure = "none" /\ ~TerminalPolled) =>
          /\ pc \in {"polling", "sleeping"}
          /\ FramesOfType({"status"}) = 1..Len(frames)
    /\ (pc = "sleeping" /\ pollsIssued < MaxPolls) => ENABLED TimerFire

C9_Witness ==
    /\ pc = "polling"
    /\ Len(polled) >= 2
    /\ \A i \in 1..Len(polled) : polled[i] = "requires_action"

(* -------------------------------- C10 ---------------------------------- *)

\* the message-list fetch of this stream has come back
MessagesArrived ==
    msgFetches = 1 /\ req.kind = "none" /\ failure # "messages"

\* C10: when the list fetched after a completed poll is empty, or its newest
\* message does not start with a text block, the stream is aborted: the handler
\* rejects, no message event and no sentinel are written, and the status frame
\* of `completed` is the last frame of the stream.
C10_UnreadableMessageAborts ==
    (MessagesArrived /\ ~HasLeadingText(messages)) =>
        /\ pc = "aborted"
        /\ failure = "payload"
        /\ FramesOfType({"message", "error", "done"}) = {}
        /\ frames # << >>
        /\ frames[Len(frames)] = StatusFrame("completed")

C10_Witness ==
    /\ failure = "payload"
    /\ messages = << >>
    /\ Len(frames) >= 2

(* -------------------------------- C11 ---------------------------------- *)

\* the polls that returned a tag the loop does not leave on
RunningPolls == { i \in 1..Len(polled) : polled[i] \notin TerminalTags }

\* C11: every timer the loop arms has the fixed delay of 1000 ms; one timer
\* is armed for each poll that returned a non-terminal tag and none for any
\* other, so each poll after the first is preceded by exactly one suspension;
\* a terminal tag is only ever the latest tag polled, and once it is polled
\* the loop is neither polling nor sleeping.
C11_PollCadence ==
    /\ \A i \in 1..Len(delays) : delays[i] = 1000
    /\ Len(delays) = Cardinality(RunningPolls)
    /\ pc = "polling" => pollsIssued = Len(delays) + 1
    /\ pc = "sleeping" =>
          /\ pollsIssued = Len(delays)
          /\ frames[Len(frames)] = StatusFrame(LastPolled)
          /\ LastPolled \notin TerminalTags
    /\ \A i \in 1..Len(polled) : polled[i] \in TerminalTags => i = Len(polled)
    /\ TerminalPolled =>
          /\ pc \in {"fetching", "exited", "closed", "aborted"}
          /\ pollsIssued = Len(polled)
          /\ Len(delays) = Len(polled) - 1

C11_Witness ==
    /\ Len(delays) >= 2
    /\ LastPolled = "expired"
    /\ pc = "closed"

(* -------------------------------- C12 ---------------------------------- *)

\* C12: the rate limiter enforces the current values of currentRateLimit: a
\* request is answered 429 exactly when it takes the count of its window above
\* currentRateLimit.max, and a window runs out after currentRateLimit.windowMs.
C12_Claim ==
    [][/\ hits' = hits + 1 =>
             (lastStatus' = 429 <=> hits' > currentRateLimit.max)
       /\ (hits > 0 /\ hits' = 0) =>
             lastWindowMs' = currentRateLimit.windowMs]_vars

(* -------------------------------- C13 ---------------------------------- *)

\* the call names a function of `global` that throws, or its arguments do
\* not parse
CallThrows(call) ==
    /\ call.hasFunction
    /\ call.name \in {"structuredClone", "setTimeout", "BigInt"}
    /\ call.args # "1" \/ call.name = "setTimeout"

\* C13: handleToolCalls never rejects; it resolves with one output per call,
\* in input order, each with the id of its call; a call whose name is no
\* global function gets the `Unknown function` output and a call whose
\* function throws gets an `Error executing` output.
C13_Claim ==
    tpc # "idle" =>
        /\ ~toolsRejected
        /\ Len(toolOutputs) = Len(toolCalls)
        /\ \A i \in 1..Len(toolOutputs) :
              /\ toolOutputs[i].tool_call_id = toolCalls[i].id
              /\ (toolCalls[i].hasFunction
                    /\ toolCalls[i].name = "get_weather") =>
                    toolOutputs[i].output = UnknownFunctionOutput("get_weather")
              /\ CallThrows(toolCalls[i]) =>
                    toolOutputs[i].output.error = "Error executing"

(* -------------------------------- C14 ---------------------------------- *)

\* C14: once a request whose file was accepted and stored has been answered,
\* its file was forwarded to the upstream /files endpoint and its temporary
\* file is no longer in the uploads directory.
C14_Claim ==
    \A u \in Uploads :
        (u \in accepted /\ upc[u] = "answered") =>
            /\ u \in forwarded
            /\ u \notin uploadsDir

====
